---- MODULE Spec2Model ----
(***************************************************************************)
(* rect-lib: the Rectangle trait (src/src/lib.rs), its reference           *)
(* implementation BasicRectangle (src/src/basic_rectangle.rs) and the      *)
(* sweep-line algorithm Rectangle::unobstructed_subrectangles.             *)
(*                                                                         *)
(* One behaviour of the model is one call of unobstructed_subrectangles:   *)
(* Init draws the region and the obstruction list, Section1 sorts the      *)
(* obstructions and builds the event lines, OpenLine / CloseLine process   *)
(* one event line each (gap computation included) and Section4 closes the  *)
(* rectangles that are still active.                                       *)
(*                                                                         *)
(* sort_unstable_by / sort_unstable_by_key are insertion sorts for slices  *)
(* of at most 20 elements, which is every slice within the bounds below,   *)
(* so elements with equal keys keep their order.                           *)
(***************************************************************************)
EXTENDS Integers, Sequences, FiniteSets

\* ---------------------------------------------------------------- bounds
\* coordinates of the obstructions range over 0..MaxCoord on both axes
MaxCoord == 4
\* longest obstruction list
MaxObs == 2
\* the regions lie in the window [RegLeft, RegRight] x [RegBottom, RegTop],
\* which leaves a column on either side and two rows below
RegLeft == 1
RegRight == 3
RegBottom == 2
RegTop == 4
\* the runs with at most one obstruction draw the region and the obstruction
\* from every well-formed rectangle with sides in 0..MaxCoordOne
MaxCoordOne == 5

VARIABLES
    region,             \* self
    obstructions,       \* the argument, in the caller's order
    sorted,             \* the local copy, sorted by descending top
    lines,              \* the event lines still to be processed
    line,               \* the event line processed last
    gaps,               \* the gaps computed at that line
    active_rectangles,
    unique_rectangles,
    intersected,        \* the value returned by a call of intersection
    pc

vars == <<region, obstructions, sorted, lines, line, gaps,
          active_rectangles, unique_rectangles, intersected, pc>>

\* ------------------------------------------------------- BasicRectangle
new_from_sides(l, r, t, b) ==
    [x |-> l, y |-> t, width |-> r - l + 1, height |-> t - b + 1]

left(rect) == rect.x
right(rect) == rect.x + rect.width - 1
top(rect) == rect.y
bottom(rect) == rect.y - rect.height + 1

\* ------------------------------------------- Rectangle, default methods
width(rect) == right(rect) - left(rect)
height(rect) == top(rect) - bottom(rect)
area(rect) == width(rect) * height(rect)

contains_point(rect, px, py) ==
    px >= left(rect) /\ px <= right(rect) /\ py <= top(rect) /\ py >= bottom(rect)

contains_rectangle(rect, other) ==
    /\ left(rect) <= left(other)
    /\ right(rect) >= right(other)
    /\ top(rect) >= top(other)
    /\ bottom(rect) <= bottom(other)

overlaps(rect, other) ==
    /\ left(rect) <= right(other)
    /\ right(rect) >= left(other)
    /\ top(rect) >= bottom(other)
    /\ bottom(rect) <= top(other)

Max(a, b) == IF a >= b THEN a ELSE b
Min(a, b) == IF a <= b THEN a ELSE b

None == [none |-> TRUE]

\* intersection that takes rectangles sharing only an edge row or column as
\* disjoint
intersectionStrict(rect, other) ==
    LET l == Max(left(rect), left(other))
        r == Min(right(rect), right(other))
        t == Min(top(rect), top(other))
        b == Max(bottom(rect), bottom(other))
    IN  IF l < r /\ b < t THEN new_from_sides(l, r, t, b) ELSE None

intersection(rect, other) ==
    LET l == Max(left(rect), left(other))
        r == Min(right(rect), right(other))
        t == Min(top(rect), top(other))
        b == Max(bottom(rect), bottom(other))
    IN  IF l <= r /\ b <= t THEN new_from_sides(l, r, t, b) ELSE None

\* ------------------------------------------------------- the input sets
Coords == 0..MaxCoord

\* every well-formed rectangle with its sides in Coords
Sides == { s \in Coords \X Coords \X Coords \X Coords : s[1] <= s[2] /\ s[4] <= s[3] }

Rects == { new_from_sides(s[1], s[2], s[3], s[4]) : s \in Sides }

\* the regions: the window's bottom-left cell, bottom row, left column and
\* the whole window
Regions ==
    { new_from_sides(RegLeft, r, t, RegBottom) :
        r \in {RegLeft, RegRight}, t \in {RegBottom, RegTop} }

ObstructionLists ==
    UNION { [1..n -> Rects] : n \in 0..MaxObs }

CoordsOne == 0..MaxCoordOne

SidesOne ==
    { s \in CoordsOne \X CoordsOne \X CoordsOne \X CoordsOne : s[1] <= s[2] /\ s[4] <= s[3] }

RectsOne == { new_from_sides(s[1], s[2], s[3], s[4]) : s \in SidesOne }

ObstructionListsOne == UNION { [1..n -> RectsOne] : n \in 0..1 }

\* --------------------------------------------- Section 1: sort and lines
\* obstructions.sort_unstable_by(|a, b| b.top().cmp(&a.top())): the
\* insertion sort moves an element left past the elements of smaller top
InsertByTop(s, e) ==
    LET k == Cardinality({ i \in 1..Len(s) : top(s[i]) >= top(e) })
    IN  SubSeq(s, 1, k) \o <<e>> \o SubSeq(s, k + 1, Len(s))

RECURSIVE SortByTop(_)
SortByTop(s) ==
    IF Len(s) <= 1 THEN s
    ELSE InsertByTop(SortByTop(SubSeq(s, 1, Len(s) - 1)), s[Len(s)])

Line(px, o) == [x |-> px, opens |-> o]

\* the pushes of the loop over the sorted obstructions
RECURSIVE PushLines(_)
PushLines(obs) ==
    IF obs = <<>> THEN <<>>
    ELSE <<Line(left(Head(obs)), FALSE), Line(right(Head(obs)) + 1, TRUE)>>
         \o PushLines(Tail(obs))

CollectLines(self, obs) == <<Line(left(self), TRUE)>> \o PushLines(obs)

\* lines.sort_unstable_by_key(|line| line.x)
InsertByX(s, e) ==
    LET k == Cardinality({ i \in 1..Len(s) : s[i].x <= e.x })
    IN  SubSeq(s, 1, k) \o <<e>> \o SubSeq(s, k + 1, Len(s))

RECURSIVE SortByX(_)
SortByX(s) ==
    IF Len(s) <= 1 THEN s
    ELSE InsertByX(SortByX(SubSeq(s, 1, Len(s) - 1)), s[Len(s)])

\* lines.dedup_by_key(|line| line.x): the first of each run is kept
RECURSIVE DedupByX(_)
DedupByX(s) ==
    IF Len(s) <= 1 THEN s
    ELSE LET rest == DedupByX(SubSeq(s, 1, Len(s) - 1))
         IN  IF s[Len(s)].x = rest[Len(rest)].x THEN rest
             ELSE Append(rest, s[Len(s)])

InsideRegion(self, l) == left(self) <= l.x /\ l.x <= right(self)

FilterLines(self, s) == SelectSeq(s, LAMBDA l : InsideRegion(self, l))

EventLines(self, obs) ==
    FilterLines(self, DedupByX(SortByX(CollectLines(self, obs))))

\* ------------------------------------------------------ Section 2: gaps
Gap(t, b) == [top |-> t, bottom |-> b]

Covers(rect, px) == left(rect) <= px /\ px <= right(rect)

\* the bottom of the gap pushed above an obstruction
GapBottomAbove(obstruction) == top(obstruction) + 1

\* ShingleStep with the cursor left on the obstruction's bottom row
ShingleStepOnBottom(acc, obstruction) ==
    [gaps |-> IF acc.last > top(obstruction)
              THEN Append(acc.gaps, Gap(acc.last, GapBottomAbove(obstruction)))
              ELSE acc.gaps,
     last |-> Min(acc.last, bottom(obstruction))]

\* one turn of the loop over the obstructions that cross the line:
\* acc = [gaps, last_rectange_bottom]
ShingleStep(acc, obstruction) ==
    [gaps |-> IF acc.last > top(obstruction)
              THEN Append(acc.gaps, Gap(acc.last, GapBottomAbove(obstruction)))
              ELSE acc.gaps,
     last |-> Min(acc.last, bottom(obstruction) - 1)]

RECURSIVE Shingles(_, _, _)
Shingles(acc, obs, px) ==
    IF obs = <<>> THEN acc
    ELSE Shingles(IF Covers(Head(obs), px) THEN ShingleStep(acc, Head(obs)) ELSE acc,
                  Tail(obs), px)

\* CollectGaps with the last gap ending one above the region's bottom
CollectGapsAboveBottom(self, obs, px) ==
    LET acc == Shingles([gaps |-> <<>>, last |-> top(self)], obs, px)
    IN  IF acc.last >= bottom(self)
        THEN Append(acc.gaps, Gap(acc.last, bottom(self) + 1))
        ELSE acc.gaps

CollectGaps(self, obs, px) ==
    LET acc == Shingles([gaps |-> <<>>, last |-> top(self)], obs, px)
    IN  IF acc.last >= bottom(self)
        THEN Append(acc.gaps, Gap(acc.last, bottom(self)))
        ELSE acc.gaps

\* ----------------------------------------- the active rectangles' order
UnfinishedRect(l, t, b) == [left |-> l, top |-> t, bottom |-> b]

\* active_rectangles.sort_unstable_by_key(|rect| Reverse(rect.left))
InsertByReverseLeft(s, e) ==
    LET k == Cardinality({ i \in 1..Len(s) : s[i].left >= e.left })
    IN  SubSeq(s, 1, k) \o <<e>> \o SubSeq(s, k + 1, Len(s))

RECURSIVE SortByReverseLeft(_)
SortByReverseLeft(s) ==
    IF Len(s) <= 1 THEN s
    ELSE InsertByReverseLeft(SortByReverseLeft(SubSeq(s, 1, Len(s) - 1)), s[Len(s)])

SameShape(rect, t, b) == t = rect.top /\ b = rect.bottom

HasShape(rects, t, b) == \E i \in 1..Len(rects) : SameShape(rects[i], t, b)

\* ------------------------------------------- Section 3: an opening line
\* OpenGap without the check that the shape is unique
OpenGapUnchecked(active, gap, px) ==
    Append(active, UnfinishedRect(px, gap.top, gap.bottom))

\* one turn of the loop over the gaps
OpenGap(active, gap, px) ==
    IF ~HasShape(active, gap.top, gap.bottom)
    THEN Append(active, UnfinishedRect(px, gap.top, gap.bottom))
    ELSE active

RECURSIVE OpenGaps(_, _, _)
OpenGaps(active, gs, px) ==
    IF gs = <<>> THEN active
    ELSE OpenGaps(OpenGap(active, Head(gs), px), Tail(gs), px)

\* ------------------------------------- Section 3 & 1/2: a closing line
\* if the current rect fits within a gap we can keep it
FitsAGap(rect, gs) ==
    \E i \in 1..Len(gs) : gs[i].top >= rect.top /\ rect.bottom >= gs[i].bottom

\* the filter of the gaps "within the current rect"
GapWithin(gap, rect) == gap.top <= rect.top \/ rect.bottom <= gap.bottom

\* Continuation spanning the rect and the gap instead of their common rows
ContinuationOuter(rect, gap) ==
    UnfinishedRect(rect.left, Max(rect.top, gap.top), Min(rect.bottom, gap.bottom))

\* the rectangle the continuation for a gap starts with
Continuation(rect, gap) ==
    UnfinishedRect(rect.left, Min(rect.top, gap.top), Max(rect.bottom, gap.bottom))

\* the loop over the gaps for one closed rect; active is the whole list
\* being filtered, fresh is new_active_rectangles
\* ContinueWith that looks for the shape among the active rectangles only,
\* not among the new ones
ContinueWithActiveOnly(fresh, active, rect, gap) ==
    LET c == Continuation(rect, gap)
    IN  IF GapWithin(gap, rect) /\ ~HasShape(active, c.top, c.bottom)
        THEN Append(fresh, c)
        ELSE fresh

\* one turn of the loop over the gaps
ContinueWith(fresh, active, rect, gap) ==
    LET c == Continuation(rect, gap)
    IN  IF GapWithin(gap, rect) /\ ~HasShape(active \o fresh, c.top, c.bottom)
        THEN Append(fresh, c)
        ELSE fresh

RECURSIVE Continue(_, _, _, _)
Continue(fresh, active, rect, gs) ==
    IF gs = <<>> THEN fresh
    ELSE Continue(ContinueWith(fresh, active, rect, Head(gs)), active, rect, Tail(gs))

\* the rectangle pushed when an active rectangle is closed at the line px
Closed(rect, px) == new_from_sides(rect.left, px - 1, rect.top, rect.bottom)

\* the filter closure over the active rectangles from index i on:
\* acc = [kept, fresh, out]
RECURSIVE CloseFrom(_, _, _, _, _)
CloseFrom(acc, active, i, gs, px) ==
    IF i > Len(active) THEN acc
    ELSE LET rect == active[i]
         IN  CloseFrom(IF FitsAGap(rect, gs)
                       THEN [acc EXCEPT !.kept = Append(@, rect)]
                       ELSE [acc EXCEPT !.out = Append(@, Closed(rect, px)),
                                        !.fresh = Continue(@, active, rect, gs)],
                       active, i + 1, gs, px)

\* --------------------------------------------------- Section 4: the end
\* Remaining with the right edge taken as exclusive, as at a closing line
RemainingExclusive(self, rect) ==
    new_from_sides(rect.left, right(self) - 1, rect.top, rect.bottom)

Remaining(self, rect) == new_from_sides(rect.left, right(self), rect.top, rect.bottom)

RECURSIVE CloseRemaining(_, _)
CloseRemaining(self, active) ==
    IF active = <<>> THEN <<>>
    ELSE <<Remaining(self, Head(active))>> \o CloseRemaining(self, Tail(active))

\* ------------------------------------------------------ the state machine
NoLine == Line(-1, FALSE)

Start ==
    /\ sorted = <<>>
    /\ lines = <<>>
    /\ line = NoLine
    /\ gaps = <<>>
    /\ active_rectangles = <<>>
    /\ unique_rectangles = <<>>
    /\ intersected = None
    /\ pc = "section1"

Init ==
    /\ region \in Regions
    /\ obstructions \in ObstructionLists
    /\ Start

\* a call with at most one obstruction
InitOne ==
    /\ region \in RectsOne
    /\ obstructions \in ObstructionListsOne
    /\ Start

\* lib.rs 318-360
Section1 ==
    /\ pc = "section1"
    /\ sorted' = SortByTop(obstructions)
    /\ lines' = EventLines(region, sorted')
    /\ pc' = "sweep"
    /\ UNCHANGED <<region, obstructions, line, gaps, active_rectangles,
                   unique_rectangles, intersected>>

\* lib.rs 362-419, a line that opens
OpenLine ==
    /\ pc = "sweep"
    /\ lines # <<>>
    /\ Head(lines).opens
    /\ line' = Head(lines)
    /\ lines' = Tail(lines)
    /\ gaps' = CollectGaps(region, sorted, line'.x)
    /\ active_rectangles' = OpenGaps(SortByReverseLeft(active_rectangles), gaps', line'.x)
    /\ UNCHANGED <<region, obstructions, sorted, unique_rectangles, intersected, pc>>

\* lib.rs 362-398 and 421-473, a line that closes
CloseLine ==
    /\ pc = "sweep"
    /\ lines # <<>>
    /\ ~Head(lines).opens
    /\ line' = Head(lines)
    /\ lines' = Tail(lines)
    /\ gaps' = CollectGaps(region, sorted, line'.x)
    /\ LET acc == CloseFrom([kept |-> <<>>, fresh |-> <<>>, out |-> unique_rectangles],
                            SortByReverseLeft(active_rectangles), 1, gaps', line'.x)
       IN  /\ active_rectangles' = acc.kept \o acc.fresh
           /\ unique_rectangles' = acc.out
    /\ UNCHANGED <<region, obstructions, sorted, intersected, pc>>

\* lib.rs 475-486
Section4 ==
    /\ pc = "sweep"
    /\ lines = <<>>
    /\ unique_rectangles' = unique_rectangles \o CloseRemaining(region, active_rectangles)
    /\ active_rectangles' = <<>>
    /\ pc' = "done"
    /\ UNCHANGED <<region, obstructions, sorted, lines, line, gaps, intersected>>

Next == Section1 \/ OpenLine \/ CloseLine \/ Section4

Spec == Init /\ [][Next]_vars

SpecOne == InitOne /\ [][Next]_vars

\* ------------------------------------------- a call of intersection
\* self.intersection(&other), with self = region and other = obstructions[1]
InitIntersection ==
    /\ region \in RectsOne
    /\ obstructions \in [1..1 -> RectsOne]
    /\ sorted = <<>>
    /\ lines = <<>>
    /\ line = NoLine
    /\ gaps = <<>>
    /\ active_rectangles = <<>>
    /\ unique_rectangles = <<>>
    /\ intersected = None
    /\ pc = "intersection"

\* lib.rs 267-278
Intersect ==
    /\ pc = "intersection"
    /\ intersected' = intersection(region, obstructions[1])
    /\ pc' = "intersected"
    /\ UNCHANGED <<region, obstructions, sorted, lines, line, gaps,
                   active_rectangles, unique_rectangles>>

SpecIntersection == InitIntersection /\ [][Intersect]_vars

\* ------------------------------------------- the call as one function
\* one turn of the loop over the lines: st = [active, out]
SweepLine(self, obs, l, st) ==
    LET gs == CollectGaps(self, obs, l.x)
        active == SortByReverseLeft(st.active)
    IN  IF l.opens
        THEN [active |-> OpenGaps(active, gs, l.x), out |-> st.out]
        ELSE LET acc == CloseFrom([kept |-> <<>>, fresh |-> <<>>, out |-> st.out],
                                  active, 1, gs, l.x)
             IN  [active |-> acc.kept \o acc.fresh, out |-> acc.out]

RECURSIVE Sweep(_, _, _, _)
Sweep(self, obs, ls, st) ==
    IF ls = <<>> THEN st
    ELSE Sweep(self, obs, Tail(ls), SweepLine(self, obs, Head(ls), st))

unobstructed_subrectangles(self, obs) ==
    LET sortedObs == SortByTop(obs)
        st == Sweep(self, sortedObs, EventLines(self, sortedObs),
                    [active |-> <<>>, out |-> <<>>])
    IN  st.out \o CloseRemaining(self, st.active)

\* ------------------------------------------------ the result of the call
Done == pc = "done"

Output == unique_rectangles

\* ------------------------------------------- vocabulary of the claims
OutIdx == DOMAIN Output

ObsIdx == DOMAIN obstructions

Obstructed(px, py) == \E j \in ObsIdx : contains_point(obstructions[j], px, py)

RegionXs == left(region)..right(region)

RegionYs == bottom(region)..top(region)

WellFormed(rect) == left(rect) <= right(rect) /\ bottom(rect) <= top(rect)

SameSides(a, b) ==
    /\ left(a) = left(b)
    /\ right(a) = right(b)
    /\ top(a) = top(b)
    /\ bottom(a) = bottom(b)

RECURSIVE SumArea(_)
SumArea(rects) ==
    IF rects = <<>> THEN 0 ELSE area(Head(rects)) + SumArea(Tail(rects))

RECURSIVE SumIntersectionArea(_, _)
SumIntersectionArea(self, obs) ==
    IF obs = <<>> THEN 0
    ELSE (IF intersection(self, Head(obs)) = None THEN 0
          ELSE area(intersection(self, Head(obs))))
         + SumIntersectionArea(self, Tail(obs))

PairwiseDisjointObstructions ==
    \A i \in ObsIdx, j \in ObsIdx : i # j => ~overlaps(obstructions[i], obstructions[j])

\* ------------------------------------------------------------------ C1
\* C1: no rectangle of the output overlaps an obstruction.
C1_NoOutputOverlapsObstruction ==
    Done => \A i \in OutIdx, j \in ObsIdx : ~overlaps(Output[i], obstructions[j])

\* ------------------------------------------------------------------ C2
\* C2: every point of the region that no obstruction contains is contained
\* in a rectangle of the output.
C2_Coverage ==
    Done => \A px \in RegionXs, py \in RegionYs :
                ~Obstructed(px, py) =>
                    \E i \in OutIdx : contains_point(Output[i], px, py)

\* ------------------------------------------------------------------ C3
\* C3 as stated: no two rectangles of the output overlap.
C3_NoTwoOutputsOverlap ==
    Done => \A i \in OutIdx, j \in OutIdx : i # j => ~overlaps(Output[i], Output[j])

\* C3: no two rectangles of the output that have the same top and the same
\* bottom overlap; rectangles of different shapes may overlap.
C3_SameShapeOutputsDisjoint ==
    Done => \A i \in OutIdx, j \in OutIdx :
                (i # j /\ top(Output[i]) = top(Output[j])
                       /\ bottom(Output[i]) = bottom(Output[j]))
                => ~overlaps(Output[i], Output[j])

\* two rectangles of one shape were returned, one on either side of an
\* obstruction
C3_Witness ==
    /\ Done
    /\ \E i \in OutIdx, j \in OutIdx :
            /\ i # j
            /\ WellFormed(Output[i])
            /\ top(Output[i]) = top(Output[j])
            /\ bottom(Output[i]) = bottom(Output[j])
            /\ right(Output[i]) < left(Output[j])

\* ------------------------------------------------------------------ C4
\* C4: with an empty obstruction list the output is exactly one rectangle
\* with the sides of the region.
C4_NoObstructions ==
    (Done /\ obstructions = <<>>) =>
        Len(Output) = 1 /\ SameSides(Output[1], region)

C4_Witness ==
    /\ Done
    /\ obstructions = <<>>
    /\ Len(Output) = 1
    /\ left(region) < right(region)
    /\ bottom(region) < top(region)

\* ------------------------------------------------------------------ C5
RegionFullyObstructed ==
    \A px \in RegionXs, py \in RegionYs : Obstructed(px, py)

\* C5: when the obstructions cover every point of the region the output
\* is empty.
C5_FullyObstructed ==
    (Done /\ RegionFullyObstructed) => Output = <<>>

\* ------------------------------------------------------------------ C6
\* the single obstruction covers the top-left corner of the region
CornerCase ==
    /\ Len(obstructions) = 1
    /\ left(obstructions[1]) = left(region)
    /\ top(obstructions[1]) = top(region)
    /\ right(obstructions[1]) < right(region)
    /\ bottom(obstructions[1]) > bottom(region)

\* C6: a single obstruction on the top-left corner leaves exactly the strip
\* below it across the full width and the full-height rectangle right of it.
C6_TopLeftCorner ==
    (Done /\ CornerCase) =>
        /\ Len(Output) = 2
        /\ { Output[1], Output[2] } =
            { new_from_sides(left(region), right(region),
                             bottom(obstructions[1]) - 1, bottom(region)),
              new_from_sides(right(obstructions[1]) + 1, right(region),
                             top(region), bottom(region)) }

\* the documented example
C6_Witness ==
    /\ Done
    /\ region = new_from_sides(0, 5, 5, 0)
    /\ obstructions = <<new_from_sides(0, 2, 5, 1)>>
    /\ { Output[i] : i \in OutIdx } =
        { new_from_sides(0, 5, 0, 0), new_from_sides(3, 5, 5, 0) }

\* ------------------------------------------------------------------ C7
\* C7 as stated: for obstructions that do not overlap each other the areas
\* of the output add up to the region's area less the areas of the
\* intersections with the obstructions.
C7_AreaConservation ==
    (Done /\ PairwiseDisjointObstructions) =>
        SumArea(Output) = area(region) - SumIntersectionArea(region, obstructions)

\* C7: with an empty obstruction list the areas of the output add up to the
\* region's area.
C7_AreaWithoutObstructions ==
    (Done /\ obstructions = <<>>) => SumArea(Output) = area(region)

C7_Witness ==
    /\ Done
    /\ obstructions = <<>>
    /\ area(region) > 0
    /\ SumArea(Output) = area(region)

\* ------------------------------------------------------------------ C8
\* C8: every rectangle of the output lies inside the region.
C8_OutputInsideRegion ==
    Done => \A i \in OutIdx : contains_rectangle(region, Output[i])

\* ------------------------------------------------------------------ C9
\* C9: every rectangle of the output is well-formed, and so is the shape of
\* every active rectangle (top >= bottom).
C9_WellFormed ==
    /\ \A i \in OutIdx : WellFormed(Output[i])
    /\ \A i \in DOMAIN active_rectangles :
            active_rectangles[i].top >= active_rectangles[i].bottom

\* ----------------------------------------------------------------- C10
ObstructedBeside(px, rect) ==
    \E py \in bottom(rect)..top(rect) : Obstructed(px, py)

\* C10: every rectangle of the output starts at the region's left edge or
\* beside an obstructed point of its rows, and ends at the region's right
\* edge or beside an obstructed point of its rows.
C10_MaximalAlongX ==
    Done => \A i \in OutIdx :
                /\ \/ left(Output[i]) = left(region)
                   \/ ObstructedBeside(left(Output[i]) - 1, Output[i])
                /\ \/ right(Output[i]) = right(region)
                   \/ ObstructedBeside(right(Output[i]) + 1, Output[i])

\* ----------------------------------------------------------------- C11
\* the sides the claim gives the intersection
IntersectionSides(a, b) ==
    new_from_sides(Max(left(a), left(b)), Min(right(a), right(b)),
                   Min(top(a), top(b)), Max(bottom(a), bottom(b)))

\* C11: A.intersection(B) is Some exactly when A.overlaps(B), and then it is
\* from_sides(max(lefts), min(rights), min(tops), max(bottoms)) and both A
\* and B contain it.
C11_IntersectionIffOverlaps ==
    pc = "intersected" =>
        LET a == region
            b == obstructions[1]
        IN  /\ (intersected # None) <=> overlaps(a, b)
            /\ intersected # None =>
                /\ contains_rectangle(a, intersected)
                /\ contains_rectangle(b, intersected)
                /\ intersected = IntersectionSides(a, b)

\* two rectangles that share exactly one corner point, neither containing
\* the other
C11_Witness ==
    /\ pc = "intersected"
    /\ intersected # None
    /\ ~contains_rectangle(region, obstructions[1])
    /\ ~contains_rectangle(obstructions[1], region)
    /\ left(intersected) = right(intersected)
    /\ top(intersected) = bottom(intersected)
    /\ left(region) < right(region)
    /\ left(obstructions[1]) < right(obstructions[1])

\* ----------------------------------------------------------------- C12
\* C12: no two rectangles of the active list have the same (top, bottom).
C12_ShapeUniqueness ==
    \A i \in DOMAIN active_rectangles, j \in DOMAIN active_rectangles :
        i # j => ~SameShape(active_rectangles[i],
                            active_rectangles[j].top, active_rectangles[j].bottom)

\* a closing line has closed two rectangles and left two active ones, one
\* of them started before the line
C12_Witness ==
    /\ line # NoLine
    /\ ~line.opens
    /\ Len(unique_rectangles) >= 2
    /\ Len(active_rectangles) >= 2
    /\ \E i \in DOMAIN active_rectangles : active_rectangles[i].left < line.x

\* ----------------------------------------------------------------- C13
\* the step processes a closing line
ClosingStep == pc = "sweep" /\ lines # <<>> /\ lines' = Tail(lines) /\ ~line'.opens

\* the active rectangles the step closes: those that fit no gap of the line
ClosedAt == { i \in DOMAIN active_rectangles : ~FitsAGap(active_rectangles[i], gaps') }

\* the rectangles the step starts follow the ones it keeps
StartedAt ==
    (Len(active_rectangles) - Cardinality(ClosedAt) + 1)..Len(active_rectangles')

GapsAt == { gaps'[g] : g \in DOMAIN gaps' }

\* started has the continuation shape of the closed rect for the gap
IsContinuationShape(started, rect, gap) ==
    /\ started.top = Min(rect.top, gap.top)
    /\ started.bottom = Max(rect.bottom, gap.bottom)

\* a rectangle of the continuation shape is active after the step
ContinuationExists(rect, gap) ==
    \E k \in DOMAIN active_rectangles' :
        IsContinuationShape(active_rectangles'[k], rect, gap)

\* C13 as stated: at a closing line x every rectangle started is the
\* continuation (min(rect.top, gap.top), max(rect.bottom, gap.bottom)) of a
\* closed rect for a gap and has left = x, and every such continuation
\* shape is active afterwards.
C13_ContinuationAtLine ==
    [][ClosingStep =>
        /\ \A k \in StartedAt :
               /\ active_rectangles'[k].left = line'.x
               /\ \E i \in ClosedAt, gap \in GapsAt :
                      IsContinuationShape(active_rectangles'[k], active_rectangles[i], gap)
        /\ \A i \in ClosedAt, gap \in GapsAt :
               GapWithin(gap, active_rectangles[i])
                   => ContinuationExists(active_rectangles[i], gap)]_vars

\* C13: as above, but the continuation keeps the left of the rect it
\* continues (left = rect.left), not the line's x.
C13_ContinuationAtRectLeft ==
    [][ClosingStep =>
        /\ \A k \in StartedAt :
               \E i \in ClosedAt, gap \in GapsAt :
                   /\ active_rectangles'[k].left = active_rectangles[i].left
                   /\ IsContinuationShape(active_rectangles'[k], active_rectangles[i], gap)
        /\ \A i \in ClosedAt, gap \in GapsAt :
               GapWithin(gap, active_rectangles[i])
                   => ContinuationExists(active_rectangles[i], gap)]_vars

\* a closing line has closed a rectangle and an active rectangle with the
\* same left covers only a part of its rows
C13_Witness ==
    /\ line # NoLine
    /\ ~line.opens
    /\ \E i \in DOMAIN active_rectangles, j \in OutIdx :
          /\ right(Output[j]) = line.x - 1
          /\ left(Output[j]) = active_rectangles[i].left
          /\ active_rectangles[i].left < line.x
          /\ active_rectangles[i].top <= top(Output[j])
          /\ active_rectangles[i].bottom >= bottom(Output[j])
          /\ active_rectangles[i].bottom <= active_rectangles[i].top
          /\ \/ active_rectangles[i].top < top(Output[j])
             \/ active_rectangles[i].bottom > bottom(Output[j])

\* ----------------------------------------------------------------- C14
InGap(gap, py) == gap.bottom <= py /\ py <= gap.top

\* C14: the gaps computed at an event line x are the maximal free vertical
\* intervals of the region's column at x: each lies within the region's
\* rows and holds no obstructed point, each free point of the column lies
\* in exactly one gap, each gap ends at the region's edge or beside an
\* obstructed point, and the gaps are listed strictly top-to-bottom.
C14_GapsAreFreeIntervals ==
    line # NoLine =>
        /\ \A g \in DOMAIN gaps :
               /\ bottom(region) <= gaps[g].bottom
               /\ gaps[g].bottom <= gaps[g].top
               /\ gaps[g].top <= top(region)
               /\ \A py \in gaps[g].bottom..gaps[g].top : ~Obstructed(line.x, py)
               /\ gaps[g].top = top(region) \/ Obstructed(line.x, gaps[g].top + 1)
               /\ gaps[g].bottom = bottom(region) \/ Obstructed(line.x, gaps[g].bottom - 1)
        /\ \A py \in RegionYs :
               ~Obstructed(line.x, py) =>
                   Cardinality({ g \in DOMAIN gaps : InGap(gaps[g], py) }) = 1
        /\ \A g \in DOMAIN gaps, h \in DOMAIN gaps :
               g < h => gaps[g].bottom > gaps[h].top

\* ----------------------------------------------------------------- C15
\* the obstruction list in every order
Reorderings(obs) ==
    { [i \in DOMAIN obs |-> obs[f[i]]] :
        f \in { g \in [DOMAIN obs -> DOMAIN obs] :
                    \A i \in DOMAIN obs, j \in DOMAIN obs : i # j => g[i] # g[j] } }

AsSet(rects) == { rects[i] : i \in DOMAIN rects }

\* C15: the set of rectangles returned is the same for every order of the
\* obstruction list; the order decides how the sort by top and the sort of
\* the lines break their ties, and with it which of an opening and a closing
\* line of one x is kept.
C15_OrderIndependence ==
    Done => \A reordered \in Reorderings(obstructions) :
                AsSet(unobstructed_subrectangles(region, reordered)) = AsSet(Output)

====
